---------------------------- MODULE Spec2Model ----------------------------
(***************************************************************************)
(* Model of rsbook_code/control/examples/pendulum.py: the Pendulum class   *)
(* (forward and inverse dynamics, derivative, integrate) and the loop of   *)
(* Pendulum.simulate with its control-policy callback.                     *)
(*                                                                         *)
(* Numbers are exact rationals <<n, d>> (d > 0, lowest terms): the model   *)
(* follows the arithmetic of the code without floating-point rounding.     *)
(* math.pi is the rational PiNum/PiDen, and math.cos(theta) is the cosine  *)
(* of the multiple of pi/3 nearest to theta, where the cosine is rational  *)
(* (even, 2*pi-periodic, with values in [-1, 1], and cos(0) = 1).          *)
(*                                                                         *)
(* A call's outcome depends on the attributes and on its arguments alone,  *)
(* so every call starts from the idle state; an assignment to an attribute *)
(* (also of the value it holds) drops what the last call left behind.      *)
(***************************************************************************)
EXTENDS Integers, Sequences, FiniteSets

(* ------------------------------ bounds --------------------------------- *)

\* Longest loop that is followed: a run of simulate that never leaves its
\* loop (dt <= 0) is followed for MaxSteps iterations.
MaxSteps == 5

\* The steps n of the inputs T = n*dt range over 0..MaxN.
MaxN == 3

\* The whole turns looked through for the difference of an angle and its
\* reduction modulo 2*pi.
MaxTurns == 4

(* ------------------------- rational arithmetic ------------------------- *)
\* The arithmetic is written as functions: TLC evaluates the argument of a
\* function application once, where it would evaluate the argument of an
\* operator at every use.

Abs[a \in Int] == IF a < 0 THEN -a ELSE a

GCD[a \in Nat, b \in Nat] == IF b = 0 THEN a ELSE GCD[b, a % b]

\* The rational n/d (d # 0) in lowest terms with a positive denominator.
Rat[n \in Int, d \in Int] ==
    LET k == GCD[Abs[n], Abs[d]]
        s == IF d < 0 THEN -1 ELSE 1
    IN  <<s * (n \div k), s * (d \div k)>>

\* The pairs that stand for rationals.
Q == Int \X Int

Num(n) == <<n, 1>>

RAdd[a \in Q, b \in Q] ==
    LET k == GCD[a[2], b[2]]
    IN  Rat[a[1] * (b[2] \div k) + b[1] * (a[2] \div k), a[2] * (b[2] \div k)]

RNeg[a \in Q] == <<-a[1], a[2]>>

RSub[a \in Q, b \in Q] == RAdd[a, RNeg[b]]

RMul[a \in Q, b \in Q] ==
    LET k1 == GCD[Abs[a[1]], b[2]]
        k2 == GCD[Abs[b[1]], a[2]]
    IN  Rat[(a[1] \div k1) * (b[1] \div k2), (a[2] \div k2) * (b[2] \div k1)]

\* a / b, for b # 0
RDiv[a \in Q, b \in Q] == RMul[a, Rat[b[2], b[1]]]

RLt[a \in Q, b \in Q] == a[1] * b[2] < b[1] * a[2]

RLe[a \in Q, b \in Q] == a[1] * b[2] <= b[1] * a[2]

\* Python's max(a, b) and min(a, b): the first argument wins a tie.
RMax[a \in Q, b \in Q] == IF RLt[a, b] THEN b ELSE a

RMin[a \in Q, b \in Q] == IF RLt[b, a] THEN b ELSE a

\* floor(a) as an integer
RFloor[a \in Q] == a[1] \div a[2]

\* Python's a % b for b > 0: a - floor(a/b)*b, the sign of the divisor.
RMod[a \in Q, b \in Q] == RSub[a, RMul[Num(RFloor[RDiv[a, b]]), b]]

(* ------------------------------ math ----------------------------------- *)

PiNum == 22

PiDen == 7

\* math.pi
Pi == Rat[PiNum, PiDen]

\* math.pi*2
TwoPi == RMul[Pi, Num(2)]

\* cos(k*pi/3) for k = 0..5, as rationals
CosTable == <<Num(1), Rat[1, 2], Rat[-1, 2], Num(-1), Rat[-1, 2], Rat[1, 2]>>

\* math.cos(theta), taken at the multiple of pi/3 nearest to theta
Cos[theta \in Q] ==
    LET k == RFloor[RAdd[RDiv[RMul[theta, Num(3)], Pi], Rat[1, 2]]]
    IN  CosTable[(k % 6) + 1]

(* ------------------------------ inputs --------------------------------- *)

\* The "unset" value of viscosity, umin and umax (Python's None), also the
\* value of a local that is not bound.
None == <<>>

\* Constructor arguments m, L, g (g at its default 9.8).
MVals == {Num(1), Num(2)}

LVals == {Num(1), Num(2)}

GVals == {Rat[49, 5]}

\* Values the caller assigns to the optional attributes.
ViscVals == {None, Rat[1, 2]}

UminVals == {None, Num(-1)}

UmaxVals == {None, Num(1)}

\* Torques the control policy returns, inside and outside [-1, 1].
UVals == {Num(-3), Num(0), Num(2)}

\* Angles and velocities given to the pure functions.
ThetaVals == {Num(-1), Num(0), Rat[PiNum, 3 * PiDen], Num(7)}

DThetaVals == {Num(-2), Num(0), Num(3)}

\* The scenario q0 = dq0 = 0, dt = 0.01, T = 0.05, run without viscosity
\* (with it the denominators of dq outgrow TLC's integers in five steps).
Scenario == [q0 |-> Num(0), dq0 |-> Num(0), dt |-> Rat[1, 100], T |-> Rat[1, 20]]

\* Arguments of simulate: T = n*dt and T between two steps for dt = 1/2,
\* starting outside [0, 2*pi) with velocities that carry the angle below 0
\* and above 2*pi; dt = 0 and dt < 0; T <= 0.
SimInputs ==
    {[q0 |-> Num(7), dq0 |-> Num(-20), dt |-> Rat[1, 2], T |-> Rat[n, 2]] :
            n \in 0..MaxN}
    \cup {[q0 |-> Num(-1), dq0 |-> Num(15), dt |-> Rat[1, 2], T |-> Rat[5, 4]],
          [q0 |-> Num(1), dq0 |-> Num(0), dt |-> Num(0), T |-> Num(1)],
          [q0 |-> Num(1), dq0 |-> Num(1), dt |-> Rat[-1, 2], T |-> Num(1)],
          [q0 |-> Num(1), dq0 |-> Num(1), dt |-> Rat[1, 2], T |-> Num(-1)]}

\* Controls given to derivative: a scalar, a 1-element sequence, and a
\* 2-element sequence (which the assertion rejects).
Scalar(u) == [iter |-> FALSE, v |-> u]

Listed(s) == [iter |-> TRUE, v |-> s]

ControlVals ==
    {Scalar(u) : u \in UVals} \cup {Listed(<<u>>) : u \in UVals}
    \cup {Listed(<<Num(0), Num(2)>>)}

\* States given to derivative and integrate: 2-vectors, and a 3-vector
\* (which the assertion rejects).
StateVals ==
    {<<th, dth>> : th \in ThetaVals, dth \in DThetaVals}

BadStateVals == {<<Num(0), Num(1), Num(2)>>}

IncrVals == {<<Num(-9), Num(1)>>, <<Num(0), Num(0)>>, <<Rat[1, 2], Num(-4)>>, <<Num(13), Num(2)>>}

(* ------------------------------- state --------------------------------- *)

VARIABLES
    m, L, g, viscosity, umin, umax,  \* the attributes of the Pendulum
    pc,       \* the call in progress or last completed, and its position
    args,     \* the arguments of that call
    q, dq, t, \* locals of simulate
    res,      \* local of simulate: the trace under construction
    calls,    \* the invocations of ufunc by this call of simulate, in order
    ret,      \* what the last completed call returned
    exc       \* the exception the last completed call raised, or "none"

params == <<m, L, g, viscosity, umin, umax>>

frame == <<q, dq, t, res, calls>>

vars == <<m, L, g, viscosity, umin, umax, pc, args, q, dq, t, res, calls, ret, exc>>

\* res = dict((idx,[]) for idx in ['t','x','q','dq','u','ddq'])
EmptyRes == [t |-> <<>>, x |-> <<>>, q |-> <<>>, dq |-> <<>>, u |-> <<>>, ddq |-> <<>>]

NoArgs == [none |-> TRUE]

NoRet == [kind |-> "none"]

\* A call of simulate is in progress.
Running == pc \in {"loop", "ufunc"}

\* Pendulum.__init__
Init ==
    /\ m \in MVals
    /\ L \in LVals
    /\ g \in GVals
    /\ viscosity = None
    /\ umin = None
    /\ umax = None
    /\ pc = "idle"
    /\ args = NoArgs
    /\ q = None /\ dq = None /\ t = None
    /\ res = EmptyRes
    /\ calls = <<>>
    /\ ret = NoRet
    /\ exc = "none"

\* No frame of simulate is live after a call other than simulate.
NoFrame ==
    /\ q' = None /\ dq' = None /\ t' = None
    /\ res' = EmptyRes
    /\ calls' = <<>>

(* ------------------------- the pure functions -------------------------- *)

\* visc=0.0; if self.viscosity is not None: visc = -self.viscosity*dtheta
Visc(dtheta) ==
    IF viscosity # None THEN RNeg[RMul[viscosity, dtheta]] ELSE Num(0)

\* Pendulum.dynamics: ddtheta = (u+visc-m*c*self.g)/(L*m)
Dynamics(theta, dtheta, u) ==
    LET c == Cos[theta]
        visc == Visc(dtheta)
    IN  RDiv[RSub[RAdd[u, visc], RMul[RMul[m, c], g]], RMul[L, m]]

\* Pendulum.inverse_dynamics: u = self.L*m*(ddtheta-visc+m*c*self.g)
InverseDynamics(theta, dtheta, ddtheta) ==
    LET c == Cos[theta]
        visc == Visc(dtheta)
    IN  RMul[RMul[L, m], RAdd[RSub[ddtheta, visc], RMul[RMul[m, c], g]]]

\* Derivative returning the angle, not the velocity, as first component.
DerivativeSwapped(x, u) ==
    IF Len(x) # 2 \/ ~(~u.iter \/ Len(u.v) = 1)
    THEN [exc |-> "AssertionError", ret |-> NoRet]
    ELSE LET u1 == IF u.iter THEN u.v[1] ELSE u.v
             ddq == Dynamics(x[1], x[2], u1)
         IN  [exc |-> "none", ret |-> [kind |-> "vec", v |-> <<x[1], ddq>>]]

\* Pendulum.derivative: the two assertions, the unwrapping of u, and
\* np.array([dq,ddq]).
Derivative(x, u) ==
    IF Len(x) # 2 \/ ~(~u.iter \/ Len(u.v) = 1)
    THEN [exc |-> "AssertionError", ret |-> NoRet]
    ELSE LET u1 == IF u.iter THEN u.v[1] ELSE u.v
             ddq == Dynamics(x[1], x[2], u1)
         IN  [exc |-> "none", ret |-> [kind |-> "vec", v |-> <<x[2], ddq>>]]

\* Integrate with every component reduced modulo 2*pi.
IntegrateWrapAll(x, dx) ==
    [i \in 1..Len(x) |-> RMod[RAdd[x[i], dx[i]], TwoPi]]

\* Pendulum.integrate: xnext = x+dx; xnext[0] = xnext[0]%(math.pi*2)
Integrate(x, dx) ==
    LET xnext == [i \in 1..Len(x) |-> RAdd[x[i], dx[i]]]
    IN  [xnext EXCEPT ![1] = RMod[xnext[1], TwoPi]]

(* --------------------- attributes set by the caller -------------------- *)

\* pendulum.viscosity = v, between calls; what the last call left is dropped.
SetViscosity(v) ==
    /\ ~Running
    /\ viscosity' = v
    /\ pc' = "idle" /\ args' = NoArgs /\ ret' = NoRet /\ exc' = "none"
    /\ NoFrame
    /\ UNCHANGED <<m, L, g, umin, umax>>

\* pendulum.umin = v
SetUmin(v) ==
    /\ ~Running
    /\ umin' = v
    /\ pc' = "idle" /\ args' = NoArgs /\ ret' = NoRet /\ exc' = "none"
    /\ NoFrame
    /\ UNCHANGED <<m, L, g, viscosity, umax>>

\* pendulum.umax = v
SetUmax(v) ==
    /\ ~Running
    /\ umax' = v
    /\ pc' = "idle" /\ args' = NoArgs /\ ret' = NoRet /\ exc' = "none"
    /\ NoFrame
    /\ UNCHANGED <<m, L, g, viscosity, umin>>

(* ------------------------------ simulate ------------------------------- *)

\* The loop test as t <= T.
LoopTestInclusive(tt, TT) == RLe[tt, TT]

\* while t < T
LoopTest(tt, TT) == RLt[tt, TT]

\* Clamp with max and min exchanged.
ClampExchanged(u) ==
    LET u1 == IF umin # None THEN RMin[u, umin] ELSE u
    IN  IF umax # None THEN RMax[u1, umax] ELSE u1

\* if self.umin is not None: u = max(u,self.umin)
\* if self.umax is not None: u = min(u,self.umax)
Clamp(u) ==
    LET u1 == IF umin # None THEN RMax[u, umin] ELSE u
    IN  IF umax # None THEN RMin[u1, umax] ELSE u1

\* The six appends of one iteration.
Record(r, tt, qq, dqq, ddq, u) ==
    [t   |-> Append(r.t, tt),
     q   |-> Append(r.q, qq),
     dq  |-> Append(r.dq, dqq),
     ddq |-> Append(r.ddq, ddq),
     x   |-> Append(r.x, <<qq, dqq>>),
     u   |-> Append(r.u, u)]

\* The semi-implicit step: dq is advanced first and q uses the new dq.
EulerStepSemiImplicit(qq, dqq, ddq, dt) ==
    LET dq1 == RAdd[dqq, RMul[dt, ddq]]
        q1 == RAdd[qq, RMul[dt, dq1]]
    IN  <<q1, dq1>>

\* q = q+dt*dq; dq = dq+dt*ddq: the pair (q, dq) after the two assignments.
EulerStep(qq, dqq, ddq, dt) ==
    LET q1 == RAdd[qq, RMul[dt, dqq]]
        dq1 == RAdd[dqq, RMul[dt, ddq]]
    IN  <<q1, dq1>>

\* The angle left as it is.
WrapAngleOmitted(qq) == qq

\* q=q%(math.pi*2)
WrapAngle(qq) == RMod[qq, TwoPi]

\* The time left as it is.
NextTimeStuck(tt, dt) == tt

\* t += dt
NextTime(tt, dt) == RAdd[tt, dt]

\* simulate is called: q = q0, dq = dq0, res = the six empty lists, t = 0.
CallSimulate(a) ==
    /\ pc = "idle"
    /\ pc' = "loop"
    /\ args' = a
    /\ q' = a.q0
    /\ dq' = a.dq0
    /\ res' = EmptyRes
    /\ t' = Num(0)
    /\ calls' = <<>>
    /\ ret' = NoRet
    /\ exc' = "none"
    /\ UNCHANGED params

\* The policy entered twice for one iteration.
UfuncCallTwice ==
    /\ pc = "loop"
    /\ LoopTest(t, args.T)
    /\ Len(res.t) < MaxSteps
    /\ calls' = Append(Append(calls,
                    [t |-> t, q |-> q, dq |-> dq, st |-> "returned", u |-> Num(0)]),
                    [t |-> t, q |-> q, dq |-> dq, st |-> "pending", u |-> None])
    /\ pc' = "ufunc"
    /\ UNCHANGED <<params, args, q, dq, t, res, ret, exc>>

\* The loop test passes and ufunc(t,q,dq) is entered.
UfuncCall ==
    /\ pc = "loop"
    /\ LoopTest(t, args.T)
    /\ Len(res.t) < MaxSteps
    /\ calls' = Append(calls, [t |-> t, q |-> q, dq |-> dq, st |-> "pending", u |-> None])
    /\ pc' = "ufunc"
    /\ UNCHANGED <<params, args, q, dq, t, res, ret, exc>>

\* ufunc returns u0: the rest of the iteration.
UfuncReturn(u0) ==
    /\ pc = "ufunc"
    /\ LET u == Clamp(u0)
           ddq == Dynamics(q, dq, u)
           nxt == EulerStep(q, dq, ddq, args.dt)
       IN  /\ res' = Record(res, t, q, dq, ddq, u)
           /\ q' = WrapAngle(nxt[1])
           /\ dq' = nxt[2]
           /\ t' = NextTime(t, args.dt)
    /\ calls' = [calls EXCEPT ![Len(calls)].st = "returned", ![Len(calls)].u = u0]
    /\ pc' = "loop"
    /\ UNCHANGED <<params, args, ret, exc>>

\* The failure caught inside the loop, which goes on to its next test.
UfuncRaiseCaught ==
    /\ pc = "ufunc"
    /\ calls' = [calls EXCEPT ![Len(calls)].st = "raised"]
    /\ pc' = "loop"
    /\ UNCHANGED <<params, args, q, dq, t, res, ret, exc>>

\* ufunc raises: nothing in simulate catches it, the call ends with it.
UfuncRaise ==
    /\ pc = "ufunc"
    /\ calls' = [calls EXCEPT ![Len(calls)].st = "raised"]
    /\ pc' = "raised"
    /\ exc' = "PolicyFailure"
    /\ ret' = NoRet
    /\ UNCHANGED <<params, args, q, dq, t, res>>

\* The loop test fails: return res.
SimulateReturn ==
    /\ pc = "loop"
    /\ ~LoopTest(t, args.T)
    /\ pc' = "returned"
    /\ ret' = [kind |-> "trace", v |-> res]
    /\ UNCHANGED <<params, args, q, dq, t, res, calls, exc>>

(* ----------------------- calls of the pure functions ------------------- *)

CallDerivative(x, u) ==
    /\ pc = "idle"
    /\ pc' = "derivative"
    /\ args' = [x |-> x, u |-> u]
    /\ LET r == Derivative(x, u)
       IN  ret' = r.ret /\ exc' = r.exc
    /\ NoFrame
    /\ UNCHANGED params

CallIntegrate(x, dx) ==
    /\ pc = "idle"
    /\ pc' = "integrate"
    /\ args' = [x |-> x, dx |-> dx]
    /\ ret' = [kind |-> "vec", v |-> Integrate(x, dx)]
    /\ exc' = "none"
    /\ NoFrame
    /\ UNCHANGED params

CallDynamics(theta, dtheta, u) ==
    /\ pc = "idle"
    /\ pc' = "dynamics"
    /\ args' = [theta |-> theta, dtheta |-> dtheta, u |-> u]
    /\ ret' = [kind |-> "num", v |-> Dynamics(theta, dtheta, u)]
    /\ exc' = "none"
    /\ NoFrame
    /\ UNCHANGED params

\* inverse_dynamics at (theta, dtheta) on the acceleration dynamics returned
\* for the torque u at the same (theta, dtheta).
CallInverseDynamics(theta, dtheta, u) ==
    /\ pc = "idle"
    /\ pc' = "inverse_dynamics"
    /\ LET ddtheta == Dynamics(theta, dtheta, u)
       IN  /\ args' = [theta |-> theta, dtheta |-> dtheta, ddtheta |-> ddtheta]
           /\ ret' = [kind |-> "num", v |-> InverseDynamics(theta, dtheta, ddtheta)]
    /\ exc' = "none"
    /\ NoFrame
    /\ UNCHANGED params

(* --------------------------- specification ----------------------------- *)

Next ==
    \/ \E v \in ViscVals : SetViscosity(v)
    \/ \E v \in UminVals : SetUmin(v)
    \/ \E v \in UmaxVals : SetUmax(v)
    \/ \E a \in SimInputs : CallSimulate(a)
    \/ viscosity = None /\ CallSimulate(Scenario)
    \/ UfuncCall
    \/ \E u0 \in UVals : UfuncReturn(u0)
    \/ UfuncRaise
    \/ SimulateReturn
    \/ \E x \in StateVals \cup BadStateVals, u \in ControlVals : CallDerivative(x, u)
    \/ \E x \in StateVals, dx \in IncrVals : CallIntegrate(x, dx)
    \/ \E th \in ThetaVals, dth \in DThetaVals, u \in UVals : CallDynamics(th, dth, u)
    \/ \E th \in ThetaVals, dth \in DThetaVals, u \in UVals : CallInverseDynamics(th, dth, u)

Spec == Init /\ [][Next]_vars

\* A Pendulum after construction and the caller's assignments, before a call.
Configured ==
    /\ m \in MVals
    /\ L \in LVals
    /\ g \in GVals
    /\ viscosity \in ViscVals
    /\ umin \in UminVals
    /\ umax \in UmaxVals
    /\ pc = "idle"
    /\ args = NoArgs
    /\ q = None /\ dq = None /\ t = None
    /\ res = EmptyRes
    /\ calls = <<>>
    /\ ret = NoRet
    /\ exc = "none"

\* One call of simulate, from its entry to its end.
SimulateNext ==
    \/ \E a \in SimInputs : CallSimulate(a)
    \/ viscosity = None /\ CallSimulate(Scenario)
    \/ UfuncCall
    \/ \E u0 \in UVals : UfuncReturn(u0)
    \/ UfuncRaise
    \/ SimulateReturn

\* simulate is synchronous and single-threaded: once called it keeps running,
\* and the policy returns or fails.
LiveSpec ==
    /\ Configured
    /\ [][SimulateNext]_vars
    /\ WF_vars(UfuncCall)
    /\ WF_vars((\E u0 \in UVals : UfuncReturn(u0)) \/ UfuncRaise)
    /\ WF_vars(SimulateReturn)

(* ------------------------------ claims --------------------------------- *)

\* x lies in [0, 2*pi)
InRange(x) == RLe[Num(0), x] /\ RLt[x, TwoPi]

\* A call of simulate is in progress or has ended.
InSimulate == pc \in {"loop", "ufunc", "returned", "raised"}

\* The attributes are those of Pendulum() with nothing assigned since.
Defaults ==
    /\ m = Num(1) /\ L = Num(1) /\ g = Rat[49, 5]
    /\ viscosity = None /\ umin = None /\ umax = None

\* C1: inverse_dynamics at (theta, dtheta), applied to the acceleration that
\* dynamics returns for a torque u at the same (theta, dtheta), returns u,
\* for every choice of m, L, g and viscosity.
C1_RoundTrip ==
    pc = "inverse_dynamics" =>
        \A u \in UVals :
            Dynamics(args.theta, args.dtheta, u) = args.ddtheta => ret.v = u

\* C2 as stated: every angle recorded in a trace of simulate lies in
\* [0, 2*pi), whatever q0 is.
C2_AllAnglesWrapped ==
    InSimulate => \A k \in 1..Len(res.q) : InRange(res.q[k])

\* C2 amended: every angle recorded after the first sample lies in
\* [0, 2*pi); the first sample records q0 as it was given.
C2_LaterAnglesWrapped ==
    InSimulate =>
        /\ \A k \in 2..Len(res.q) : InRange(res.q[k])
        /\ Len(res.q) >= 1 => res.q[1] = args.q0

\* A returned trace that starts outside [0, 2*pi) and in which a step carried
\* the angle outside [0, 2*pi) before the wrap.
C2_Witness ==
    /\ pc = "returned"
    /\ Len(res.q) >= 3
    /\ ~InRange(res.q[1])
    /\ \E k \in 1..(Len(res.q) - 1) :
        ~InRange(RAdd[res.q[k], RMul[args.dt, res.dq[k]]])

\* C3: the torque recorded at a step is the policy's return value limited by
\* the bounds that are set: raised to umin when umin is set, lowered to umax
\* when umax is set, unchanged by an unset bound; with both set and
\* umin <= umax it lies in [umin, umax].
C3_Clamped ==
    InSimulate =>
        \A k \in 1..Len(res.u) :
            LET raw == calls[k].u
                u == res.u[k]
            IN  /\ (umin = None /\ umax = None) => u = raw
                /\ (umin # None /\ umax = None) =>
                        u = (IF RLt[raw, umin] THEN umin ELSE raw)
                /\ (umin = None /\ umax # None) =>
                        u = (IF RLt[umax, raw] THEN umax ELSE raw)
                /\ (umin # None /\ umax # None /\ RLe[umin, umax]) =>
                        /\ RLe[umin, u] /\ RLe[u, umax]
                        /\ RLt[raw, umin] => u = umin
                        /\ RLt[umax, raw] => u = umax
                        /\ (RLe[umin, raw] /\ RLe[raw, umax]) => u = raw

\* A returned trace under umin = -1, umax = 1 whose policy returned a torque
\* below umin at one step and above umax at another.
C3_Witness ==
    /\ pc = "returned"
    /\ umin # None /\ umax # None
    /\ \E k \in 1..Len(res.u) : RLt[calls[k].u, umin]
    /\ \E k \in 1..Len(res.u) : RLt[umax, calls[k].u]

\* The policy returned 0 at every invocation.
ZeroPolicy == \A k \in 1..Len(calls) : calls[k].u = Num(0)

\* C4: simulate returns one sample per iteration, in time order: the six
\* lists have one length; when T = n*dt with dt > 0 that length is n and the
\* times are 0, dt, ..., (n-1)*dt, increasing and below T; the first sample
\* records t = 0, q0, dq0 and ddq = dynamics(q0, dq0, u); and dt = 0.01,
\* T = 0.05, q0 = dq0 = 0 with default attributes and a zero policy gives 5
\* samples, the first with u = 0 and ddq = -9.8.
C4_Samples ==
    pc = "returned" =>
        /\ ret = [kind |-> "trace", v |-> res]
        /\ \A f \in {"x", "q", "dq", "u", "ddq"} : Len(res[f]) = Len(res.t)
        /\ \A n \in 0..MaxSteps :
            (RLt[Num(0), args.dt] /\ args.T = RMul[Num(n), args.dt]) =>
                /\ Len(res.t) = n
                /\ \A k \in 1..n :
                    /\ res.t[k] = RMul[Num(k - 1), args.dt]
                    /\ RLt[res.t[k], args.T]
                    /\ k > 1 => RLt[res.t[k - 1], res.t[k]]
        /\ Len(res.t) >= 1 =>
                /\ res.t[1] = Num(0)
                /\ res.q[1] = args.q0
                /\ res.dq[1] = args.dq0
                /\ res.x[1] = <<args.q0, args.dq0>>
                /\ res.ddq[1] = Dynamics(args.q0, args.dq0, res.u[1])
        /\ (args = Scenario /\ Defaults /\ ZeroPolicy) =>
                /\ Len(res.t) = 5
                /\ res.u[1] = Num(0)
                /\ res.ddq[1] = Rat[-49, 5]

\* The scenario has returned its five samples.
C4_Witness ==
    /\ pc = "returned"
    /\ args = Scenario /\ Defaults /\ ZeroPolicy
    /\ Len(res.t) = 5

\* The torque a control stands for: itself, or the entry of the 1-element
\* sequence.
Torque(u) == IF u.iter THEN u.v[1] ELSE u.v

\* The arguments of derivative pass its assertions.
ValidDerivativeArgs ==
    /\ Len(args.x) = 2
    /\ args.u.iter => Len(args.u.v) = 1

\* C5: for a 2-element x and a control u that is a scalar or a 1-element
\* sequence, derivative(x, u) returns the 2-vector
\* (x[1], dynamics(x[0], x[1], u as a scalar)), the same for both forms of
\* one torque, and the call changes no attribute.
C5_Derivative ==
    /\ [](( pc = "derivative" /\ ValidDerivativeArgs) =>
            /\ exc = "none"
            /\ ret.kind = "vec"
            /\ Len(ret.v) = 2
            /\ ret.v[1] = args.x[2]
            /\ ret.v[2] = Dynamics(args.x[1], args.x[2], Torque(args.u)))
    /\ [][pc' = "derivative" => params' = params]_vars

\* derivative has returned for a torque given as a 1-element sequence, at a
\* state whose angle and velocity differ.
C5_Witness ==
    /\ pc = "derivative"
    /\ ValidDerivativeArgs
    /\ args.u.iter
    /\ args.x[1] # args.x[2]
    /\ viscosity # None

\* C6: the policy is invoked once per step: inside the k-th invocation the
\* trace holds k-1 samples and the policy was given the current (t, q, dq),
\* not yet advanced; at the loop test and on return the invocations are as
\* many as the samples, and the k-th was given the (t, q, dq) of the k-th
\* sample.
C6_OncePerStep ==
    /\ pc \in {"loop", "returned"} =>
            /\ Len(calls) = Len(res.t)
            /\ \A k \in 1..Len(calls) : calls[k].st = "returned"
    /\ pc = "ufunc" =>
            /\ Len(calls) = Len(res.t) + 1
            /\ calls[Len(calls)].st = "pending"
            /\ calls[Len(calls)].t = t
            /\ calls[Len(calls)].q = q
            /\ calls[Len(calls)].dq = dq
    /\ InSimulate =>
            \A k \in 1..Len(res.t) :
                /\ calls[k].t = res.t[k]
                /\ calls[k].q = res.q[k]
                /\ calls[k].dq = res.dq[k]
                /\ res.x[k] = <<calls[k].q, calls[k].dq>>

\* simulate has returned after three or more invocations, with a moving
\* state.
C6_Witness ==
    /\ pc = "returned"
    /\ Len(calls) >= 3
    /\ res.q[2] # res.q[1]
    /\ res.dq[3] # res.dq[2]

\* C7: a failure of the policy is the outcome of simulate: the call ends at
\* that step with that failure and returns no trace, the failed invocation
\* is the last one, the loop does not go on, and no attribute changes while
\* simulate runs.
C7_FailurePropagates ==
    /\ [](\A k \in 1..Len(calls) :
            calls[k].st = "raised" =>
                /\ pc = "raised"
                /\ exc = "PolicyFailure"
                /\ ret = NoRet
                /\ k = Len(calls)
                /\ Len(res.t) = k - 1)
    /\ [](pc = "raised" =>
            /\ ~ENABLED UfuncCall
            /\ ~ENABLED (\E u0 \in UVals : UfuncReturn(u0))
            /\ ~ENABLED UfuncRaise
            /\ ~ENABLED SimulateReturn)
    /\ [][Running => params' = params]_vars

\* The policy has failed at its third invocation or later.
C7_Witness ==
    /\ pc = "raised"
    /\ Len(calls) >= 3
    /\ calls[Len(calls)].st = "raised"

\* r is s reduced modulo 2*pi: r lies in [0, 2*pi) and differs from s by a
\* whole number of turns.
IsWrapOf(r, s) ==
    /\ InRange(r)
    /\ \E n \in -MaxTurns..MaxTurns : RAdd[r, RMul[Num(n), TwoPi]] = s

\* C8: integrate(x, dx) returns the 2-vector whose angle is x[0] + dx[0]
\* reduced modulo 2*pi into [0, 2*pi), and whose velocity is x[1] + dx[1],
\* not wrapped.
C8_Integrate ==
    pc = "integrate" =>
        /\ ret.kind = "vec"
        /\ Len(ret.v) = 2
        /\ IsWrapOf(ret.v[1], RAdd[args.x[1], args.dx[1]])
        /\ ret.v[2] = RAdd[args.x[2], args.dx[2]]

\* integrate has returned for a negative sum of angles and a negative sum of
\* velocities.
C8_Witness ==
    /\ pc = "integrate"
    /\ RLt[RAdd[args.x[1], args.dx[1]], Num(0)]
    /\ RLt[ret.v[2], Num(0)]

\* C9: consecutive samples k, k+1 of a trace are one explicit Euler step
\* apart, taken from the values of sample k: q[k+1] = (q[k] + dt*dq[k]) mod
\* 2*pi and dq[k+1] = dq[k] + dt*ddq[k], with
\* ddq[k] = dynamics(q[k], dq[k], u[k]).
C9_ExplicitEuler ==
    InSimulate =>
        /\ \A k \in 1..Len(res.t) :
            res.ddq[k] = Dynamics(res.q[k], res.dq[k], res.u[k])
        /\ \A k \in 1..(Len(res.t) - 1) :
            /\ IsWrapOf(res.q[k + 1], RAdd[res.q[k], RMul[args.dt, res.dq[k]]])
            /\ res.dq[k + 1] = RAdd[res.dq[k], RMul[args.dt, res.ddq[k]]]

\* A returned trace of three or more samples with dt > 0 and a nonzero
\* acceleration at its first sample.
C9_Witness ==
    /\ pc = "returned"
    /\ Len(res.t) >= 3
    /\ RLt[Num(0), args.dt]
    /\ res.ddq[1] # Num(0)
    /\ res.dq[2] # res.dq[1]

\* C10 as stated, in the form a finite run refutes: simulate ends for any
\* dt, so every iteration that comes back to the loop test has moved t
\* forward, towards T (an iteration that leaves t where it was, or moves it
\* back, comes back to the same test with the same outcome, for ever).
C10_EveryStepAdvances ==
    [][(pc = "ufunc" /\ pc' = "loop") => RLt[t, t']]_vars

\* simulate is running with dt > 0.
RunningForward == IF Running THEN RLt[Num(0), args.dt] ELSE FALSE

\* C10 amended: for dt > 0 a call of simulate ends, with the trace or with
\* the policy's failure; the loop is never cut short by MaxSteps.
C10_TerminatesForPositiveDt ==
    /\ [](IF RunningForward /\ pc = "loop"
          THEN LoopTest(t, args.T) => ENABLED UfuncCall
          ELSE TRUE)
    /\ RunningForward ~> (pc \in {"returned", "raised"})

\* simulate has returned with dt > 0 after three or more iterations, each
\* of which the policy returned from.
C10_Witness ==
    /\ pc = "returned"
    /\ RLt[Num(0), args.dt]
    /\ Len(res.t) >= 3
    /\ ret.kind = "trace"

=============================================================================
